---- MODULE Spec2Model ----
(***************************************************************************)
(* Contact-form backend (josee2701/Envio-Correos).                         *)
(*                                                                         *)
(* Two handlers answer a contact submission:                               *)
(*   - contact/views.py  ContactAPIView.post : synchronous (Django REST),  *)
(*     sends both mails inside the request and reports a failure as 500;   *)
(*   - contact/routes.py contact            : deferred (FastAPI), guarded  *)
(*     by the slowapi limiter of config/throttle.py, schedules both mails  *)
(*     as background tasks and answers 201 at once.                        *)
(*                                                                         *)
(* Text is modelled as TLA+ strings; e-mail addresses, whose grammar the   *)
(* validators inspect, are sequences of one-character strings.             *)
(***************************************************************************)
EXTENDS Integers, Sequences, FiniteSets, TLC

(***************************************************************************)
(* Bounds of the model.                                                    *)
(***************************************************************************)
\* Number of requests issued in one behaviour.
NumRequests == 2
\* The clock runs from 0 to MaxNow seconds, in steps of TickSeconds.
MaxNow == 60
TickSeconds == 30

(***************************************************************************)
(* Program constants.                                                      *)
(***************************************************************************)
\* @limiter.limit("1/minute"): one hit per window of sixty seconds.
RateLimitAmount == 1
RateLimitSeconds == 60

HTTP_201_CREATED == 201
HTTP_400_BAD_REQUEST == 400
HTTP_500_INTERNAL_SERVER_ERROR == 500

(***************************************************************************)
(* Input samples.                                                          *)
(***************************************************************************)
Fields == {"name", "apellido", "email", "phone", "message"}

JohnEmail == <<"j", "@", "x", ".", "c", "o">>
AnaEmail == <<"a", "@", "y", ".", "c", "o">>
\* No "@" at all.
BadEmail == <<"j", ".", "x", ".", "c", "o">>

Emails == {JohnEmail, AnaEmail, BadEmail}

\* A payload carrying all five fields.
FullPayload(email) ==
    [name |-> "John", apellido |-> "Doe", email |-> email,
     phone |-> "312323232", message |-> "Hello"]

\* p without the key f (a JSON object is a function on the keys it carries).
Without(p, f) == [k \in (DOMAIN p) \ {f} |-> p[k]]

\* Request bodies: complete ones, with a well-formed or a malformed address,
\* and the complete body with one key left out.
Payloads ==
    {FullPayload(e) : e \in Emails}
        \cup {Without(FullPayload(JohnEmail), f) : f \in Fields}

\* What a call of the mail transport does: it returns, or it raises an
\* exception whose str() is msg.
Returned == [raised |-> FALSE, msg |-> ""]
Raised(m) == [raised |-> TRUE, msg |-> m]
ErrorMessages == {"SMTP down", "Auth failed"}
SendOutcomes == {Returned} \cup {Raised(m) : m \in ErrorMessages}
\* The outcomes drawn for a send made by a background task, where the
\* message of the exception reaches nobody.
TaskOutcomes == {Returned, Raised("SMTP down")}

(***************************************************************************)
(* Validation.                                                             *)
(***************************************************************************)
Positions(s, c) == {i \in 1..Len(s) : s[i] = c}

\* The address grammar both validators enforce, reduced to its skeleton:
\* exactly one "@", a non-empty local part, and a domain with an inner dot.
IsEmail(s) ==
    /\ Cardinality(Positions(s, "@")) = 1
    /\ LET at == CHOOSE i \in Positions(s, "@") : TRUE
       IN  /\ at > 1
           /\ \E d \in Positions(s, ".") : d > at + 1 /\ d < Len(s)

\* pydantic Contact with the e-mail grammar unchecked (email: str).
Contact_NoEmailStr(p) == Fields \subseteq DOMAIN p

\* class Contact(BaseModel): five fields, none with a default, so all are
\* required; email is an EmailStr.
Contact(p) ==
    /\ Fields \subseteq DOMAIN p
    /\ IsEmail(p["email"])

\* ContactSerializer(data=...).is_valid(): contact/serializers.py declares
\* the same five required fields, email being an e-mail field.
ContactSerializer_is_valid(p) ==
    /\ Fields \subseteq DOMAIN p
    /\ IsEmail(p["email"])

\* serializer.errors: a map from each offending field to its message.
ContactSerializer_errors(p) ==
    [f \in {g \in Fields : g \notin DOMAIN p \/ (g = "email" /\ ~IsEmail(p[g]))} |->
        IF f \in DOMAIN p THEN "invalid" ELSE "required"]

(***************************************************************************)
(* The Mailer.                                                             *)
(***************************************************************************)
\* settings.DEFAULT_FROM_EMAIL: sender of every mail and the administrator's
\* address.
DEFAULT_FROM_EMAIL == <<"w", "@", "l", ".", "h">>

\* envio_email(subject, body, recipients, html): one call of the transport,
\* through EmailMessage with content_subtype "html" when html, through
\* send_mail otherwise; fail_silently=False lets the failure out.
envio_email(subject, body, recipients, html, outcome) ==
    [subject |-> subject,
     body |-> body,
     from_email |-> DEFAULT_FROM_EMAIL,
     to |-> recipients,
     content_subtype |-> IF html THEN "html" ELSE "plain",
     outcome |-> outcome]

\* info_admin: the plain-text notice, addressed to DEFAULT_FROM_EMAIL.
info_admin(name, apellido, email, phone, message, outcome) ==
    envio_email("Nuevo mensaje de contacto",
                <<"Nombre: ", name, " ", apellido, "\nEmail: ", email,
                  "\nTeléfono: ", phone, "\n\nMensaje:\n", message>>,
                <<DEFAULT_FROM_EMAIL>>, FALSE, outcome)

\* render_to_string("confirmation_email.html", {name, apellido}).
render_to_string(template, name, apellido) ==
    <<template, name, apellido>>

\* info_remitente with the confirmation addressed to the administrator.
info_remitente_ToAdmin(name, apellido, recipient_email, outcome) ==
    envio_email("Confirmación de recepción de mensaje",
                render_to_string("confirmation_email.html", name, apellido),
                <<DEFAULT_FROM_EMAIL>>, TRUE, outcome)

\* info_remitente: the HTML confirmation, addressed to the submitter.
info_remitente(name, apellido, recipient_email, outcome) ==
    envio_email("Confirmación de recepción de mensaje",
                render_to_string("confirmation_email.html", name, apellido),
                <<recipient_email>>, TRUE, outcome)

\* Rendering the template returns or raises (template missing or broken).
RenderOutcomes == {Returned, Raised("confirmation_email.html")}

(***************************************************************************)
(* Responses.                                                              *)
(***************************************************************************)
NoResponse == [status |-> 0, body |-> [none |-> ""]]
Response(body, status) == [status |-> status, body |-> body]

SuccessBody == [message |-> "Correo(s) enviado(s) con éxito"]
ErrorPrefix == "Error al enviar correo"
\* f'Error al enviar correo: {e}'
ErrorBody(e) == [error |-> ErrorPrefix \o ": " \o e.msg]

(***************************************************************************)
(* The synchronous handler, ContactAPIView.post.                           *)
(***************************************************************************)
\* post with each send in a try block of its own: a failed admin notice no
\* longer stops the confirmation.
post_SeparateTry(data, adminOutcome, renderOutcome, remitenteOutcome) ==
    IF ~ContactSerializer_is_valid(data)
    THEN [response |-> Response(ContactSerializer_errors(data), HTTP_400_BAD_REQUEST),
          mails |-> <<>>]
    ELSE LET admin == info_admin(data["name"], data["apellido"], data["email"],
                                 data["phone"], data["message"], adminOutcome)
             remitente == info_remitente(data["name"], data["apellido"],
                                         data["email"], remitenteOutcome)
         IN  [response |->
                 IF adminOutcome.raised
                 THEN Response(ErrorBody(adminOutcome), HTTP_500_INTERNAL_SERVER_ERROR)
                 ELSE IF remitenteOutcome.raised
                 THEN Response(ErrorBody(remitenteOutcome), HTTP_500_INTERNAL_SERVER_ERROR)
                 ELSE Response(SuccessBody, HTTP_201_CREATED),
              mails |-> <<admin, remitente>>]

\* post with the except clause answering as if the send had succeeded.
post_SwallowError(data, adminOutcome, renderOutcome, remitenteOutcome) ==
    IF ~ContactSerializer_is_valid(data)
    THEN [response |-> Response(ContactSerializer_errors(data), HTTP_400_BAD_REQUEST),
          mails |-> <<>>]
    ELSE LET admin == info_admin(data["name"], data["apellido"], data["email"],
                                 data["phone"], data["message"], adminOutcome)
             remitente == info_remitente(data["name"], data["apellido"],
                                         data["email"], remitenteOutcome)
         IN  [response |-> Response(SuccessBody, HTTP_201_CREATED),
              mails |-> IF adminOutcome.raised THEN <<admin>>
                        ELSE IF renderOutcome.raised THEN <<admin>>
                        ELSE <<admin, remitente>>]

\* post(request): validate; on failure answer 400 with the error map and
\* send nothing.  Otherwise, inside one try block, info_admin and then
\* info_remitente; the first exception ends the block and is answered 500;
\* with no exception the answer is 201.  The result carries the response
\* and the calls of envio_email made, in order.
post(data, adminOutcome, renderOutcome, remitenteOutcome) ==
    IF ~ContactSerializer_is_valid(data)
    THEN [response |-> Response(ContactSerializer_errors(data), HTTP_400_BAD_REQUEST),
          mails |-> <<>>]
    ELSE LET admin == info_admin(data["name"], data["apellido"], data["email"],
                                 data["phone"], data["message"], adminOutcome)
             remitente == info_remitente(data["name"], data["apellido"],
                                         data["email"], remitenteOutcome)
         IN  IF adminOutcome.raised
             THEN [response |-> Response(ErrorBody(adminOutcome),
                                         HTTP_500_INTERNAL_SERVER_ERROR),
                   mails |-> <<admin>>]
             ELSE IF renderOutcome.raised
             THEN [response |-> Response(ErrorBody(renderOutcome),
                                         HTTP_500_INTERNAL_SERVER_ERROR),
                   mails |-> <<admin>>]
             ELSE IF remitenteOutcome.raised
             THEN [response |-> Response(ErrorBody(remitenteOutcome),
                                         HTTP_500_INTERNAL_SERVER_ERROR),
                   mails |-> <<admin, remitente>>]
             ELSE [response |-> Response(SuccessBody, HTTP_201_CREATED),
                   mails |-> <<admin, remitente>>]

(***************************************************************************)
(* The rate-limit key, config/throttle.py.                                 *)
(***************************************************************************)
\* A user object, or its absence (None, or no "user" entry in the scope).
NoUser == [present |-> FALSE, id |-> 0, is_authenticated |-> FALSE]
User(id, auth) == [present |-> TRUE, id |-> id, is_authenticated |-> auth]

UserIds == {7, 8}
Users == {NoUser} \cup {User(i, a) : i \in UserIds, a \in BOOLEAN}

\* request.client.host; "" stands for a request without a client.
Hosts == {"10.0.0.1", "10.0.0.2", ""}

\* What rate_limit_key reads of a request.
Requests == [client : Hosts, state_user : Users, scope_user : Users]

\* slowapi.util.get_remote_address: the client's host, "127.0.0.1" without one.
get_remote_address(request) ==
    IF request.client = "" THEN "127.0.0.1" ELSE request.client

\* rate_limit_key(request):
\*     user = getattr(request.state, "user", None) or request.scope.get("user")
\*     if user and getattr(user, "is_authenticated", False): return str(user.id)
\*     return get_remote_address(request)
\* A user object is truthy, so "or" takes the scope's user only when the
\* state holds none.
rate_limit_key(request) ==
    LET user == IF request.state_user.present THEN request.state_user
                ELSE request.scope_user
    IN  IF user.present /\ user.is_authenticated
        THEN ToString(user.id)
        ELSE get_remote_address(request)

(***************************************************************************)
(* The limiter, limiter = Limiter(key_func=rate_limit_key), with its       *)
(* default in-memory fixed-window storage.                                 *)
(***************************************************************************)
\* Requests as the deployed application sees them: config/asgi.py installs
\* nothing that sets request.state.user or the scope's user, so a request
\* is told from another by its client address.
AppRequests ==
    {[client |-> "10.0.0.1", state_user |-> NoUser, scope_user |-> NoUser],
     [client |-> "10.0.0.2", state_user |-> NoUser, scope_user |-> NoUser]}

NoRequest == [client |-> "", state_user |-> NoUser, scope_user |-> NoUser]

LimiterKeys == {rate_limit_key(q) : q \in AppRequests}

\* A counter that was never hit, or whose window is over.
EmptyWindow == [count |-> 0, expiry |-> 0]

\* The counter of key k as read at time t: an expired window reads as none.
Current(store, k, t) ==
    IF store[k].count > 0 /\ store[k].expiry <= t THEN EmptyWindow ELSE store[k]

\* storage.incr(key, expiry): add one to the counter; the hit that opens
\* the window sets its end.  The new counter is returned.
incr(store, k, t) ==
    LET c == Current(store, k, t)
    IN  [count |-> c.count + 1,
         expiry |-> IF c.count = 0 THEN t + RateLimitSeconds ELSE c.expiry]

\* A limiter with one counter for everybody: the hit is counted under
\* every key.
hit_SharedCounter(store, k, t) ==
    [allowed |-> incr(store, k, t).count <= RateLimitAmount,
     store |-> [j \in DOMAIN store |-> incr(store, j, t)]]

\* A limiter that only reads the counter and never counts the hit.
hit_NoCount(store, k, t) ==
    [allowed |-> Current(store, k, t).count + 1 <= RateLimitAmount,
     store |-> store]

\* limiter.hit(limit, key): count the request, then compare the new counter
\* with the limit.  Counting and comparing are one call on the event loop.
hit(store, k, t) ==
    [allowed |-> incr(store, k, t).count <= RateLimitAmount,
     store |-> [store EXCEPT ![k] = incr(store, k, t)]]

(***************************************************************************)
(* The deferred handler, contact/routes.py contact.                        *)
(***************************************************************************)
Task(func, args) == [func |-> func, args |-> args]

\* contact(request, contact, background_tasks): add_task(info_admin, ...),
\* add_task(info_remitente, ...), return JSONResponse(..., status_code=201).
\* Nothing is sent here.
contact(data) ==
    [response |-> Response(SuccessBody, HTTP_201_CREATED),
     tasks |-> <<Task("info_admin",
                      <<data["name"], data["apellido"], data["email"],
                        data["phone"], data["message"]>>),
                 Task("info_remitente",
                      <<data["name"], data["apellido"], data["email"]>>)>>,
     mails |-> <<>>]

\* The body of one scheduled task: the call of envio_email it makes (none
\* when the template fails to render) and whether it raised.
run_task(task, outcome, renderOutcome) ==
    IF task.func = "info_admin"
    THEN [raised |-> outcome.raised,
          mails |-> <<info_admin(task.args[1], task.args[2], task.args[3],
                                 task.args[4], task.args[5], outcome)>>]
    ELSE IF renderOutcome.raised
    THEN [raised |-> TRUE, mails |-> <<>>]
    ELSE [raised |-> outcome.raised,
          mails |-> <<info_remitente(task.args[1], task.args[2], task.args[3],
                                     outcome)>>]

\* background with a failed task reported to the client as a 500.
background_Surfaced(response, pending, outcome, renderOutcome) ==
    LET ran == run_task(Head(pending), outcome, renderOutcome)
    IN  [response |-> IF ran.raised
                      THEN Response(ErrorBody(outcome), HTTP_500_INTERNAL_SERVER_ERROR)
                      ELSE response,
         tasks |-> IF ran.raised THEN <<>> ELSE Tail(pending),
         mails |-> ran.mails]

\* background with every task run whatever became of the one before it.
background_Independent(response, pending, outcome, renderOutcome) ==
    LET ran == run_task(Head(pending), outcome, renderOutcome)
    IN  [response |-> response,
         tasks |-> Tail(pending),
         mails |-> ran.mails]

\* The tasks added with background_tasks.add_task run once the response is
\* out, one after the other in the order they were added; a task that
\* raises ends the run, and the response already sent stays as it is.
background(response, pending, outcome, renderOutcome) ==
    LET ran == run_task(Head(pending), outcome, renderOutcome)
    IN  [response |-> response,
         tasks |-> IF ran.raised THEN <<>> ELSE Tail(pending),
         mails |-> ran.mails]

\* The answers the frameworks give on the handler's behalf: FastAPI for a
\* body that fails the Contact schema, slowapi's _rate_limit_exceeded_handler
\* for RateLimitExceeded.
ValidationErrorResponse(p) ==
    Response([detail |-> {<<"body", f>> : f \in
                 {g \in Fields : g \notin DOMAIN p \/ (g = "email" /\ ~IsEmail(p[g]))}}],
             422)
RateLimitExceededResponse ==
    Response([error |-> "Rate limit exceeded: 1 per 1 minute"], 429)

\* The wrapper with the limit looked at only after contact has run.
async_wrapper_CheckAfter(allowed, data) ==
    [response |-> IF allowed THEN contact(data).response
                  ELSE RateLimitExceededResponse,
     tasks |-> contact(data).tasks,
     mails |-> contact(data).mails]

\* The wrapper @limiter.limit puts around contact: over the limit it raises
\* RateLimitExceeded and contact is not called; otherwise it calls contact.
async_wrapper(allowed, data) ==
    IF allowed
    THEN contact(data)
    ELSE [response |-> RateLimitExceededResponse, tasks |-> <<>>, mails |-> <<>>]

(***************************************************************************)
(* State.                                                                  *)
(***************************************************************************)
VARIABLES
    now,          \* the clock, in seconds
    storage,      \* the limiter's counters: key -> [count, expiry]
    pc,           \* where each request is: idle, validated, responded, done
    handler,      \* which handler each request went to: none, sync, deferred
    req,          \* what rate_limit_key reads of each request
    payload,      \* each request's body
    validated,    \* whether the schema validation of the request's body ran
    overQuota,    \* whether the request's identity had used up its quota when it came
    admittedAt,   \* when the limiter let the request through (-1: it has not)
    resp,         \* each request's response
    tasks,        \* each request's pending background tasks
    mails,        \* the calls of envio_email made for each request, in order
    kreq,         \* the request rate_limit_key is applied to
    kres          \* the key it returned ("" before the call)

vars == <<now, storage, pc, handler, req, payload, validated, overQuota,
          admittedAt, resp, tasks, mails, kreq, kres>>

Reqs == 1..NumRequests

\* No request has come yet and the limiter has counted nothing.
InitRequests ==
    /\ now = 0
    /\ storage = [k \in LimiterKeys |-> EmptyWindow]
    /\ pc = [r \in Reqs |-> "idle"]
    /\ handler = [r \in Reqs |-> "none"]
    /\ req = [r \in Reqs |-> NoRequest]
    /\ payload = [r \in Reqs |-> <<>>]
    /\ validated = [r \in Reqs |-> FALSE]
    /\ overQuota = [r \in Reqs |-> FALSE]
    /\ admittedAt = [r \in Reqs |-> -1]
    /\ resp = [r \in Reqs |-> NoResponse]
    /\ tasks = [r \in Reqs |-> <<>>]
    /\ mails = [r \in Reqs |-> <<>>]

Init ==
    /\ InitRequests
    /\ kreq = NoRequest
    /\ kres = ""

\* The outcomes drawn for the first send of a request with body p.  The
\* outcome of a call that is never made is not drawn: Returned stands in.
AdminOutcomes(p) ==
    IF ContactSerializer_is_valid(p) THEN SendOutcomes ELSE {Returned}

\* Requests come in the order of their numbers.
Next_request(r) == pc[r] = "idle" /\ \A q \in Reqs : q < r => pc[q] # "idle"

(***************************************************************************)
(* Actions.                                                                *)
(***************************************************************************)
\* POST email-django/: the whole of ContactAPIView.post.
SyncRequest(r) ==
    /\ Next_request(r)
    /\ \E p \in Payloads :
       \E a \in AdminOutcomes(p) :
       \E t \in IF a.raised THEN {Returned} ELSE RenderOutcomes :
       \E c \in IF a.raised \/ t.raised THEN {Returned} ELSE SendOutcomes :
          LET out == post(p, a, t, c)
          IN  /\ payload' = [payload EXCEPT ![r] = p]
              /\ resp' = [resp EXCEPT ![r] = out.response]
              /\ mails' = [mails EXCEPT ![r] = out.mails]
    /\ handler' = [handler EXCEPT ![r] = "sync"]
    /\ validated' = [validated EXCEPT ![r] = TRUE]
    /\ pc' = [pc EXCEPT ![r] = "done"]
    /\ UNCHANGED <<now, storage, req, overQuota, admittedAt, tasks, kreq, kres>>

\* POST /api/contact/ reaches the route: FastAPI builds the Contact argument
\* from the body before it calls the function the route was given, which is
\* the limiter's wrapper around contact.  A body that fails the schema is
\* answered here and the wrapper is never called.
Receive(r) ==
    /\ Next_request(r)
    /\ \E q \in AppRequests, p \in Payloads :
          /\ req' = [req EXCEPT ![r] = q]
          /\ payload' = [payload EXCEPT ![r] = p]
          /\ overQuota' = [overQuota EXCEPT ![r] =
                Current(storage, rate_limit_key(q), now).count >= RateLimitAmount]
          /\ IF Contact(p)
             THEN /\ pc' = [pc EXCEPT ![r] = "validated"]
                  /\ resp' = resp
             ELSE /\ pc' = [pc EXCEPT ![r] = "done"]
                  /\ resp' = [resp EXCEPT ![r] = ValidationErrorResponse(p)]
    /\ handler' = [handler EXCEPT ![r] = "deferred"]
    /\ validated' = [validated EXCEPT ![r] = TRUE]
    /\ UNCHANGED <<now, storage, admittedAt, tasks, mails, kreq, kres>>

\* The route function is called: the wrapper counts the hit under the
\* request's key and, within the limit, runs contact.
Wrapper(r) ==
    /\ pc[r] = "validated"
    /\ LET h == hit(storage, rate_limit_key(req[r]), now)
           out == async_wrapper(h.allowed, payload[r])
       IN  /\ storage' = h.store
           /\ admittedAt' = [admittedAt EXCEPT ![r] = IF h.allowed THEN now ELSE -1]
           /\ resp' = [resp EXCEPT ![r] = out.response]
           /\ tasks' = [tasks EXCEPT ![r] = out.tasks]
           /\ mails' = [mails EXCEPT ![r] = out.mails]
           /\ pc' = [pc EXCEPT ![r] = IF out.tasks = <<>> THEN "done" ELSE "responded"]
    /\ UNCHANGED <<now, handler, req, payload, validated, overQuota, kreq, kres>>

\* The response is out; the next pending background task of the request runs.
RunTask(r) ==
    /\ pc[r] = "responded"
    /\ \E t \in IF Head(tasks[r]).func = "info_admin" THEN {Returned} ELSE RenderOutcomes :
       \E a \in IF t.raised THEN {Returned} ELSE TaskOutcomes :
          LET out == background(resp[r], tasks[r], a, t)
          IN  /\ resp' = [resp EXCEPT ![r] = out.response]
              /\ tasks' = [tasks EXCEPT ![r] = out.tasks]
              /\ mails' = [mails EXCEPT ![r] = mails[r] \o out.mails]
              /\ pc' = [pc EXCEPT ![r] = IF out.tasks = <<>> THEN "done" ELSE "responded"]
    /\ UNCHANGED <<now, storage, handler, req, payload, validated, overQuota,
                   admittedAt, kreq, kres>>

\* Time passes.
Tick ==
    /\ now + TickSeconds <= MaxNow
    /\ now' = now + TickSeconds
    /\ UNCHANGED <<storage, pc, handler, req, payload, validated, overQuota,
                   admittedAt, resp, tasks, mails, kreq, kres>>

Next ==
    \/ \E r \in Reqs : SyncRequest(r)
    \/ \E r \in Reqs : Receive(r)
    \/ \E r \in Reqs : Wrapper(r)
    \/ \E r \in Reqs : RunTask(r)
    \/ Tick

Spec == Init /\ [][Next]_vars

(***************************************************************************)
(* rate_limit_key on its own: every request of Requests, one call each.    *)
(***************************************************************************)
KeyInit ==
    /\ InitRequests
    /\ kreq \in Requests
    /\ kres = ""

CallKey ==
    /\ kres = ""
    /\ kres' = rate_limit_key(kreq)
    /\ UNCHANGED <<kreq, now, storage, pc, handler, req, payload, validated,
                   overQuota, admittedAt, resp, tasks, mails>>

KeyNext == CallKey

KeySpec == KeyInit /\ [][KeyNext]_vars

(***************************************************************************)
(* Vocabulary of the properties.                                           *)
(***************************************************************************)
Sync(r) == handler[r] = "sync"
Deferred(r) == handler[r] = "deferred"
Answered(r) == resp[r].status # 0
Finished(r) == pc[r] = "done"

\* A body with a required field missing or a malformed address.
Defective(p) ==
    \/ \E f \in Fields : f \notin DOMAIN p
    \/ "email" \in DOMAIN p /\ ~IsEmail(p["email"])

\* The fields of p that are missing or malformed.
Offending(p) ==
    {f \in Fields : f \notin DOMAIN p \/ (f = "email" /\ ~IsEmail(p[f]))}

\* The request got past validation and, in the deferred handler, the limiter.
Accepted(r) ==
    \/ Sync(r) /\ ~Defective(payload[r])
    \/ Deferred(r) /\ admittedAt[r] >= 0

IsAdminNotice(m) ==
    m.content_subtype = "plain" /\ m.to = <<DEFAULT_FROM_EMAIL>>
IsConfirmation(m, p) ==
    m.content_subtype = "html" /\ m.to = <<p["email"]>>

SameIdentity(r, q) == rate_limit_key(req[r]) = rate_limit_key(req[q])

C3_SendFailureIs500 ==
    \A r \in Reqs :
        (Sync(r) /\ ~Defective(payload[r])) =>
            /\ \A i \in 1..Len(mails[r]) :
                  mails[r][i].outcome.raised =>
                      /\ resp[r].status = HTTP_500_INTERNAL_SERVER_ERROR
                      /\ resp[r].body =
                            [error |-> "Error al enviar correo" \o ": "
                                          \o mails[r][i].outcome.msg]
            /\ resp[r].status = HTTP_201_CREATED =>
                  /\ resp[r].body = SuccessBody
                  /\ Len(mails[r]) = 2
                  /\ \A i \in 1..2 : ~mails[r][i].outcome.raised
            /\ resp[r].status \in {HTTP_201_CREATED, HTTP_500_INTERNAL_SERVER_ERROR}

C3_Witness ==
    /\ \E r \in Reqs :
          /\ Sync(r)
          /\ Len(mails[r]) = 2
          /\ mails[r][2].outcome = Raised("SMTP down")
          /\ resp[r].status = HTTP_500_INTERNAL_SERVER_ERROR
    /\ \E r \in Reqs :
          /\ Sync(r)
          /\ Len(mails[r]) = 1
          /\ mails[r][1].outcome = Raised("Auth failed")

(***************************************************************************)
(* C4.  As claimed: a request of an identity that has used up its quota in *)
(* the running window is answered 429, and the schema validation of its    *)
(* body never runs.                                                        *)
(***************************************************************************)
C4_RateLimitBeforeValidation ==
    \A r \in Reqs :
        (Deferred(r) /\ overQuota[r] /\ Answered(r)) =>
            /\ resp[r] = RateLimitExceededResponse
            /\ ~validated[r]

(***************************************************************************)
(* C5.  A request the limiter turns away causes no call of the Mailer and  *)
(* no background task, and its answer, 429, is neither the answer to a     *)
(* validation failure nor the answer to a failed send.                     *)
(***************************************************************************)
C5_RateLimitedSendsNothing ==
    \A r \in Reqs :
        resp[r].status = 429 =>
            /\ resp[r] = RateLimitExceededResponse
            /\ mails[r] = <<>>
            /\ tasks[r] = <<>>
            /\ admittedAt[r] = -1
            /\ resp[r].status \notin {HTTP_400_BAD_REQUEST, HTTP_500_INTERNAL_SERVER_ERROR,
                                      ValidationErrorResponse(payload[r]).status}

C5_Witness ==
    \E r \in Reqs :
        /\ Deferred(r)
        /\ Finished(r)
        /\ resp[r].status = 429
        /\ \E q \in Reqs : q # r /\ SameIdentity(q, r) /\ Len(mails[q]) = 2

(***************************************************************************)
(* C6.  In the deferred handler a request that passed validation and the   *)
(* limiter is answered 201 with the success message, and stays so whatever *)
(* its background sends do; 500 is never answered.                         *)
(***************************************************************************)
C6_DeferredAlways201 ==
    \A r \in Reqs :
        Deferred(r) =>
            /\ resp[r].status # HTTP_500_INTERNAL_SERVER_ERROR
            /\ admittedAt[r] >= 0 => resp[r] = Response(SuccessBody, HTTP_201_CREATED)

C6_Witness ==
    /\ \E r \in Reqs :
          /\ Deferred(r) /\ Finished(r)
          /\ Len(mails[r]) = 1
          /\ mails[r][1].outcome.raised
          /\ resp[r].status = HTTP_201_CREATED
    /\ \E r \in Reqs :
          /\ Deferred(r) /\ Finished(r)
          /\ Len(mails[r]) = 2
          /\ mails[r][2].outcome.raised
          /\ resp[r].status = HTTP_201_CREATED

(***************************************************************************)
(* C7.  However the requests of one identity interleave, the limiter lets  *)
(* through at most one of them in a window: two admitted requests of the   *)
(* same identity are at least the window's length apart.                   *)
(***************************************************************************)
C7_OneAdmittedPerWindow ==
    \A r, q \in Reqs :
        (r # q /\ admittedAt[r] >= 0 /\ admittedAt[q] >= 0 /\ SameIdentity(r, q)) =>
            \/ admittedAt[r] - admittedAt[q] >= RateLimitSeconds
            \/ admittedAt[q] - admittedAt[r] >= RateLimitSeconds

\* Two requests of one identity were in flight together; the one that came
\* second reached the limiter first and was admitted, the other was refused.
C7_Witness ==
    \E r, q \in Reqs :
        /\ r < q
        /\ SameIdentity(r, q)
        /\ admittedAt[q] >= 0
        /\ resp[r].status = 429

(***************************************************************************)
(* C8.  As claimed: the key is the id of the authenticated user the        *)
(* request carries, on request.state or in the scope, and the remote       *)
(* address when it carries none.                                           *)
(***************************************************************************)
C8_KeyIsAuthenticatedUser ==
    kres # "" =>
        kres = IF kreq.state_user.present /\ kreq.state_user.is_authenticated
               THEN ToString(kreq.state_user.id)
               ELSE IF kreq.scope_user.present /\ kreq.scope_user.is_authenticated
               THEN ToString(kreq.scope_user.id)
               ELSE get_remote_address(kreq)

(***************************************************************************)
(* C9.  In the synchronous handler the first call of the Mailer is the     *)
(* notice to the administrator and the confirmation follows only a notice  *)
(* that returned: when the notice raises, the Mailer has been called once  *)
(* and nothing went to the submitter.                                      *)
(***************************************************************************)
C9_AdminBeforeConfirmation ==
    \A r \in Reqs :
        (Sync(r) /\ mails[r] # <<>>) =>
            /\ IsAdminNotice(mails[r][1])
            /\ mails[r][1].subject = "Nuevo mensaje de contacto"
            /\ \A i \in 2..Len(mails[r]) :
                  /\ i = 2
                  /\ ~mails[r][1].outcome.raised
                  /\ IsConfirmation(mails[r][i], payload[r])
            /\ mails[r][1].outcome.raised =>
                  /\ Len(mails[r]) = 1
                  /\ \A i \in 1..Len(mails[r]) : mails[r][i].to # <<payload[r]["email"]>>

C9_Witness ==
    \E r \in Reqs :
        /\ Sync(r)
        /\ Len(mails[r]) = 1
        /\ mails[r][1].outcome.raised
        /\ resp[r].status = HTTP_500_INTERNAL_SERVER_ERROR

(***************************************************************************)
(* C10.  In the deferred handler the step that produces the 201 sends      *)
(* nothing: it leaves the two sends scheduled, the notice first.  The      *)
(* tasks then run in that order, the confirmation only after the notice    *)
(* has finished, and never if the notice raised.                           *)
(***************************************************************************)
C10_TasksInOrder ==
    \A r \in Reqs :
        (Deferred(r) /\ admittedAt[r] >= 0) =>
            /\ Len(mails[r]) + Len(tasks[r]) <= 2
            /\ Len(tasks[r]) = 2 =>
                  /\ tasks[r][1].func = "info_admin"
                  /\ tasks[r][2].func = "info_remitente"
            /\ Len(tasks[r]) = 1 =>
                  /\ tasks[r][1].func = "info_remitente"
                  /\ Len(mails[r]) = 1
                  /\ ~mails[r][1].outcome.raised
            /\ mails[r] # <<>> =>
                  /\ IsAdminNotice(mails[r][1])
                  /\ mails[r][1].outcome.raised => (Len(mails[r]) = 1 /\ tasks[r] = <<>>)
            /\ Len(mails[r]) = 2 =>
                  /\ ~mails[r][1].outcome.raised
                  /\ IsConfirmation(mails[r][2], payload[r])

C10_ScheduledNotSent ==
    [][\A r \in Reqs :
          (handler'[r] = "deferred" /\ ~Answered(r) /\ resp'[r].status = HTTP_201_CREATED) =>
              /\ mails'[r] = <<>>
              /\ Len(tasks'[r]) = 2
       /\ C10_TasksInOrder']_vars

C10_Witness ==
    /\ \E r \in Reqs :
          /\ Deferred(r) /\ Finished(r)
          /\ resp[r].status = HTTP_201_CREATED
          /\ Len(mails[r]) = 1
          /\ mails[r][1].outcome.raised
    /\ \E r \in Reqs :
          /\ Deferred(r)
          /\ resp[r].status = HTTP_201_CREATED
          /\ mails[r] = <<>>
          /\ Len(tasks[r]) = 2

(***************************************************************************)
(* C11.  The quota is kept per identity.  A request is answered 429 only   *)
(* when an earlier request of its own identity was admitted in the window  *)
(* still running, whatever the requests of other identities did; and the   *)
(* limiter's step for one request leaves every other identity's counter    *)
(* as it was.                                                              *)
(***************************************************************************)
C11_RejectedByOwnIdentity ==
    \A r \in Reqs :
        resp[r].status = 429 =>
            \E q \in Reqs :
                /\ q # r
                /\ Deferred(q)
                /\ SameIdentity(q, r)
                /\ admittedAt[q] >= 0
                /\ admittedAt[q] <= now

C11_QuotaPerIdentity ==
    [][/\ \A r \in Reqs :
             (~Answered(r) /\ resp'[r].status = 429) =>
                 \E q \in Reqs :
                     /\ q # r
                     /\ SameIdentity(q, r)
                     /\ admittedAt[q] >= 0
                     /\ admittedAt[q] <= now
                     /\ now < admittedAt[q] + RateLimitSeconds
       /\ \A r \in Reqs :
             (pc[r] = "validated" /\ pc'[r] # "validated") =>
                 \A k \in LimiterKeys :
                     k # rate_limit_key(req[r]) => storage'[k] = storage[k]
       /\ C11_RejectedByOwnIdentity']_vars

\* Two requests of different identities, both admitted within one window:
\* the first one's hit did not count against the second.
C11_Witness ==
    \E r, q \in Reqs :
        /\ r < q
        /\ Deferred(r) /\ Deferred(q)
        /\ ~SameIdentity(r, q)
        /\ admittedAt[r] >= 0
        /\ admittedAt[q] >= admittedAt[r]
        /\ admittedAt[q] < admittedAt[r] + RateLimitSeconds
        /\ storage[rate_limit_key(req[r])].count = 1
        /\ storage[rate_limit_key(req[q])].count = 1

====
